---- MODULE Spec2Model ----
(***************************************************************************)
(* A model of github.com/dangersalad/go-log: the leveled logger (log.go)   *)
(* and the HTTP request-logging middleware (handler.go).                   *)
(*                                                                         *)
(* Go strings are modelled as sequences of one-character strings, so that  *)
(* len, slicing, strings.Split, strings.Join and strings.Index are         *)
(* computed as the code computes them.  A format string is a sequence of   *)
(* tokens: a literal character, or one of the verbs "%s" and "%d".         *)
(***************************************************************************)
EXTENDS Integers, Sequences, FiniteSets, TLC

VARIABLES
    env,        \* the process environment: DEPLOY_ENV and LOG_DEBUG
    loggers,    \* loggers[1] is defaultLogger, the others came from NewLogger
    made,       \* history: for each logger, the arguments it was built/renamed with
    lastCall,   \* the most recent call of the logging API, and what it wrote to stdout
    crashed,    \* TRUE once a panic has unwound the process
    mw,         \* the request the middleware is serving, and its position in it
    sw,         \* the statusWriter of that request
    sink,       \* the underlying http.ResponseWriter of that request
    callerIO    \* input and result of the caller resolver

vars == <<env, loggers, made, lastCall, crashed, mw, sw, sink, callerIO>>

-----------------------------------------------------------------------------
(* Program constants *)

prefixLimit == 6
callerLimit == 22
debugPrefix == <<"D", "B", "G">>
infoPrefix == <<"N", "F", "O">>
Second == 1000000000
Millisecond == 1000000

(* Bounds of the model *)

MaxNameLen == 8      \* longest logger name supplied
MaxLoggers == 1      \* loggers built by NewLogger besides defaultLogger
MaxHandlerCalls == 3 \* WriteHeader/Write calls a handler makes in one request
MaxDepth == 3        \* directories in a source file path
MaxFmtLen == 3       \* tokens in a caller-supplied format string

-----------------------------------------------------------------------------
(* Strings *)

NL == "\n"

Max(a, b) == IF a > b THEN a ELSE b
Min(a, b) == IF a < b THEN a ELSE b

\* s[0:n]
Take(s, n) == SubSeq(s, 1, n)

\* s[len(s)-n:]
Last(s, n) == SubSeq(s, Len(s) - n + 1, Len(s))

RECURSIVE Spaces(_)
Spaces(n) == IF n <= 0 THEN <<>> ELSE <<" ">> \o Spaces(n - 1)

\* fmt's "%-Ns": left-justified, padded with spaces to the width, never cut
PadRight(s, width) == s \o Spaces(width - Len(s))

RECURSIVE PadZero(_, _)
PadZero(s, width) == IF Len(s) >= width THEN s ELSE PadZero(<<"0">> \o s, width)

Digit(d) == CASE d = 0 -> "0" [] d = 1 -> "1" [] d = 2 -> "2" [] d = 3 -> "3"
              [] d = 4 -> "4" [] d = 5 -> "5" [] d = 6 -> "6" [] d = 7 -> "7"
              [] d = 8 -> "8" [] d = 9 -> "9"

\* fmt's "%d" of a natural number
RECURSIVE Itoa(_)
Itoa(n) == IF n < 10 THEN <<Digit(n)>> ELSE Itoa(n \div 10) \o <<Digit(n % 10)>>

\* strings.Index(s, pat) >= 0
HasSubstring(s, pat) ==
    \E i \in 1..(Len(s) - Len(pat) + 1) : SubSeq(s, i, i + Len(pat) - 1) = pat

\* strings.Split(s, "/"): the segments between the slashes, empty ones kept
RECURSIVE SplitFrom(_, _, _)
SplitFrom(s, i, cur) ==
    IF i > Len(s) THEN <<cur>>
    ELSE IF s[i] = "/" THEN <<cur>> \o SplitFrom(s, i + 1, <<>>)
    ELSE SplitFrom(s, i + 1, Append(cur, s[i]))

Split(s) == SplitFrom(s, 1, <<>>)

\* strings.Join(parts, sep)
RECURSIVE Join(_, _)
Join(parts, sep) ==
    IF Len(parts) = 0 THEN <<>>
    ELSE IF Len(parts) = 1 THEN parts[1]
    ELSE parts[1] \o sep \o Join(Tail(parts), sep)

\* number of newline characters a string ends with
RECURSIVE TrailingNL(_)
TrailingNL(s) ==
    IF Len(s) = 0 \/ s[Len(s)] # NL THEN 0 ELSE 1 + TrailingNL(Take(s, Len(s) - 1))

IsVerb(tok) == tok \in {"%s", "%d"}

NumVerbs(f) == Cardinality({i \in 1..Len(f) : IsVerb(f[i])})

\* the operand of a verb: [s |-> string] for %s, [d |-> number] for %d
Str(s) == [kind |-> "s", s |-> s, d |-> 0]
Num(d) == [kind |-> "d", s |-> <<>>, d |-> d]

FormatOperand(tok, a) == IF a.kind = "d" THEN Itoa(a.d) ELSE a.s

\* fmt.Sprintf(f, a...) for a format whose verbs are matched by operands
RECURSIVE Sprintf(_, _)
Sprintf(f, a) ==
    IF Len(f) = 0 THEN <<>>
    ELSE IF IsVerb(f[1]) THEN FormatOperand(f[1], a[1]) \o Sprintf(Tail(f), Tail(a))
    ELSE <<f[1]>> \o Sprintf(Tail(f), a)

\* fmt.Sprintln(a...): the operands separated by spaces, and a newline
Sprintln(a) == Join(a, <<" ">>) \o <<NL>>

-----------------------------------------------------------------------------
(* Caller resolver, log.go *)

Resolved(s) == [ok |-> TRUE, panic |-> FALSE, s |-> s]
SliceOutOfRange == [ok |-> FALSE, panic |-> TRUE, s |-> <<>>]

\* normalizeCaller(line, fullfile, count): parts[len(parts)-count:] panics
\* when the path has fewer than count segments
RECURSIVE normalizeCaller(_, _, _)
normalizeCaller(line, fullfile, count) ==
    LET parts == Split(fullfile)
    IN  IF Len(parts) - count < 0 THEN SliceOutOfRange
        ELSE LET file == Join(Last(parts, count), <<"/">>)
                 caller == file \o <<":">> \o Itoa(line)
             IN  IF Len(caller) > callerLimit
                 THEN IF count = 1
                      THEN Resolved(Last(caller, callerLimit))
                      ELSE normalizeCaller(line, fullfile, count - 1)
                 ELSE Resolved(caller)

logDotGo == <<"l", "o", "g", ".", "g", "o">>
loggingDotGo == <<"l", "o", "g", "g", "i", "n", "g", ".", "g", "o">>

\* getCaller(skip): stack[skip + 1] is the frame runtime.Caller(skip) reports;
\* frame 0 is getCaller itself
RECURSIVE getCaller(_, _)
getCaller(stack, skip) ==
    IF skip >= Len(stack) THEN Resolved(<<>>)
    ELSE LET frame == stack[skip + 1]
         IN  IF HasSubstring(frame.file, logDotGo) \/ HasSubstring(frame.file, loggingDotGo)
             THEN getCaller(stack, skip + 2)
             ELSE normalizeCaller(frame.line, frame.file, 4)


-----------------------------------------------------------------------------
(* Logger, log.go *)

mainName == <<"m", "a", "i", "n">>

checkDebugEnabled(e) ==
    \/ e.DEPLOY_ENV = "dev"
    \/ e.DEPLOY_ENV = "development"
    \/ e.DEPLOY_ENV = "test"
    \/ e.DEPLOY_ENV = "testing"
    \/ e.LOG_DEBUG # ""

\* NewLogger without the limit on the prefix
NewLoggerUnlimited(prefix, debugEnabled, e) ==
    [prefix |-> prefix,
     debugEnabled |-> IF debugEnabled THEN checkDebugEnabled(e) ELSE FALSE]

\* NewLogger following the environment whatever its second argument
NewLoggerAlwaysHonoring(prefix, debugEnabled, e) ==
    [prefix |-> IF Len(prefix) > prefixLimit THEN Take(prefix, prefixLimit) ELSE prefix,
     debugEnabled |-> checkDebugEnabled(e)]

\* NewLogger(prefix, debugEnabled), run in environment e
NewLogger(prefix, debugEnabled, e) ==
    [prefix |-> IF Len(prefix) > prefixLimit THEN Take(prefix, prefixLimit) ELSE prefix,
     debugEnabled |-> IF debugEnabled THEN checkDebugEnabled(e) ELSE FALSE]

\* SetDefaultName(n), applied to defaultLogger
SetDefaultName(l, n) ==
    [l EXCEPT !.prefix = IF Len(n) > prefixLimit THEN Take(n, prefixLimit) ELSE n]

\* what one call of the logging API did: the lines it wrote, the format it
\* handed to fmt.Printf, and whether it panicked
Wrote(line, format) == [panic |-> FALSE, lines |-> <<line>>, format |-> format]
WroteNothing == [panic |-> FALSE, lines |-> <<>>, format |-> <<>>]
Panicked == [panic |-> TRUE, lines |-> <<>>, format |-> <<>>]

Bar == <<" ", " ", "|", " ">>        \* "  | "
WideBar == <<" ", " ", "|", " ", " ">> \* "  |  "

\* Logger.output(levelPrefix, a...)
output(l, levelPrefix, a, stack) ==
    LET caller == getCaller(stack, 0)
    IN  IF l.debugEnabled /\ caller.panic THEN Panicked
        ELSE LET a1 == IF l.debugEnabled
                       THEN <<PadRight(caller.s, callerLimit) \o Bar>> \o a
                       ELSE a
                 a2 == <<PadRight(l.prefix, prefixLimit) \o Bar>> \o a1
                 a3 == IF l.debugEnabled THEN <<levelPrefix \o Bar>> \o a2 ELSE a2
             IN  Wrote(Sprintln(a3), <<>>)

\* outputf appending a newline whatever the format ends with
WithNewlineAlways(f) == f \o <<NL>>

\* the newline Logger.outputf appends when the format does not end with one
WithNewline(f) == IF f[Len(f)] # NL THEN f \o <<NL>> ELSE f

\* Logger.outputf(levelPrefix, f, a...)
outputf(l, levelPrefix, f, a, stack) ==
    LET caller == getCaller(stack, 0)
    IN  IF l.debugEnabled /\ caller.panic THEN Panicked
        ELSE LET f1 == IF l.debugEnabled
                       THEN levelPrefix \o WideBar
                            \o PadRight(l.prefix, prefixLimit) \o WideBar
                            \o PadRight(caller.s, callerLimit) \o WideBar \o f
                       ELSE PadRight(l.prefix, prefixLimit) \o WideBar \o f
                 f2 == WithNewline(f1)
             IN  Wrote(Sprintf(f2, a), f2)

\* Logger.debug / Logger.debugf
debug(l, formatted, f, a, stack) ==
    IF ~l.debugEnabled THEN WroteNothing
    ELSE IF formatted THEN outputf(l, debugPrefix, f, a, stack)
    ELSE output(l, debugPrefix, a, stack)

\* Logger.info / Logger.infof
info(l, formatted, f, a, stack) ==
    IF formatted THEN outputf(l, infoPrefix, f, a, stack)
    ELSE output(l, infoPrefix, a, stack)

\* The exported logging API.  frames is the number of frames of log.go on the
\* stack when getCaller runs (getCaller itself included): a method of Logger
\* reaches it through debug/info and output/outputf, an alias and a package
\* level function through one more call each.
EntryPoint(name, recv, family, formatted, frames) ==
    [name |-> name, recv |-> recv, family |-> family, formatted |-> formatted,
     frames |-> frames]

MethodEntryPoints ==
    {EntryPoint("Debug", "Logger", "debug", FALSE, 4),
     EntryPoint("Debugln", "Logger", "debug", FALSE, 4),
     EntryPoint("Debugf", "Logger", "debug", TRUE, 4),
     EntryPoint("Info", "Logger", "info", FALSE, 4),
     EntryPoint("Infoln", "Logger", "info", FALSE, 4),
     EntryPoint("Infof", "Logger", "info", TRUE, 4),
     EntryPoint("Print", "Logger", "info", FALSE, 5),
     EntryPoint("Println", "Logger", "info", FALSE, 5),
     EntryPoint("Printf", "Logger", "info", TRUE, 5)}

PackageEntryPoints ==
    {EntryPoint("Debug", "package", "debug", FALSE, 5),
     EntryPoint("Debugln", "package", "debug", FALSE, 5),
     EntryPoint("Debugf", "package", "debug", TRUE, 5),
     EntryPoint("Info", "package", "info", FALSE, 5),
     EntryPoint("Infoln", "package", "info", FALSE, 5),
     EntryPoint("Infof", "package", "info", TRUE, 5),
     EntryPoint("Print", "package", "info", FALSE, 6),
     EntryPoint("Println", "package", "info", FALSE, 6),
     EntryPoint("Printf", "package", "info", TRUE, 6)}

EntryPoints == MethodEntryPoints \cup PackageEntryPoints

\* github.com/dangersalad/go-log/log.go and runtime/proc.go, below GOPATH
libraryFile == <<"/", "g", "o", "/", "d", "s", "/", "g", "o", "-", "l", "o", "g", "/", "l", "o", "g", ".", "g", "o">>
runtimeFile == <<"/", "g", "o", "/", "s", "r", "c", "/", "r", "t", "/", "p", "r", "o", "c", ".", "g", "o">>

Frame(file, line) == [file |-> file, line |-> line]

\* the frames of log.go on top of the stack, getCaller first
LibraryFrames(n) == [i \in 1..n |-> Frame(libraryFile, 200 + i)]

\* a goroutine's stack below the logging call: the calling function, then
\* the Go runtime
UserStack(file, line) == <<Frame(file, line), Frame(runtimeFile, 250), Frame(runtimeFile, 1650)>>

\* one call of entry point ep on logger l
Call(l, ep, f, a, userStack) ==
    LET stack == LibraryFrames(ep.frames) \o userStack
    IN  IF ep.family = "debug" THEN debug(l, ep.formatted, f, a, stack)
        ELSE info(l, ep.formatted, f, a, stack)


-----------------------------------------------------------------------------
(* Duration rendering, handler.go *)

RECURSIVE StripZeros(_)
StripZeros(s) ==
    IF Len(s) > 0 /\ s[Len(s)] = "0" THEN StripZeros(Take(s, Len(s) - 1)) ELSE s

\* time.fmtFrac: the low prec digits of v after a point, trailing zeros and
\* an empty fraction left out
FmtFrac(v, prec) ==
    LET frac == StripZeros(PadZero(Itoa(v % (10 ^ prec)), prec))
    IN  IF Len(frac) = 0 THEN <<>> ELSE <<".">> \o frac

\* time.Duration.String() of d nanoseconds; the micro sign is written "u"
DurationString(d) ==
    IF d < Second
    THEN IF d = 0 THEN <<"0", "s">>
         ELSE IF d < 1000 THEN Itoa(d) \o <<"n", "s">>
         ELSE IF d < Millisecond
              THEN Itoa(d \div 1000) \o FmtFrac(d, 3) \o <<"u", "s">>
         ELSE Itoa(d \div 1000000) \o FmtFrac(d, 6) \o <<"m", "s">>
    ELSE LET secs == d \div Second
             mins == secs \div 60
             tail == Itoa(secs % 60) \o FmtFrac(d, 9) \o <<"s">>
         IN  IF mins = 0 THEN tail
             ELSE IF mins \div 60 = 0 THEN Itoa(mins) \o <<"m">> \o tail
             ELSE Itoa(mins \div 60) \o <<"h">> \o Itoa(mins % 60) \o <<"m">> \o tail

\* time.Duration.Truncate(m)
Truncate(d, m) == d - (d % m)

\* n / q rounded to the nearest integer; a tie falls as the binary
\* floating-point value of the quotient happens to lie
Rounded(n, q) ==
    LET fl == n \div q
        r == n % q
    IN  IF 2 * r < q THEN {fl} ELSE IF 2 * r > q THEN {fl + 1} ELSE {fl, fl + 1}

\* fmt's "%0.3f" of t / 1000
Fixed3(t) == Itoa(t \div 1000) \o <<".">> \o PadZero(Itoa(t % 1000), 3)

\* the divisor of fmt.Sprintf("%0.3fms", float64(diff.Nanoseconds())/10000000.0)
nanosDivisor == 10000000

\* the renderings diffStr can take for an elapsed time of diff nanoseconds
diffStr(diff) ==
    IF diff > Second THEN {DurationString(Truncate(diff, Millisecond))}
    ELSE IF diff > Millisecond
         THEN {Fixed3(t) \o <<"m", "s">> : t \in Rounded(diff, nanosDivisor \div 1000)}
    ELSE {DurationString(diff)}

-----------------------------------------------------------------------------
(* Response capture wrapper and middleware, handler.go *)

\* the underlying http.ResponseWriter: the first WriteHeader decides the
\* status sent, a Write before any WriteHeader sends 200
FreshSink == [wroteHeader |-> FALSE, status |-> 0, calls |-> <<>>]

SinkWriteHeader(s, status) ==
    [wroteHeader |-> TRUE,
     status |-> IF s.wroteHeader THEN s.status ELSE status,
     calls |-> Append(s.calls, [op |-> "WriteHeader", status |-> status, b |-> ""])]

SinkWrite(s, b) ==
    [wroteHeader |-> TRUE,
     status |-> IF s.wroteHeader THEN s.status ELSE 200,
     calls |-> Append(s.calls, [op |-> "Write", status |-> 0, b |-> b])]

\* the status the client receives once the handler has returned
SentStatus(s) == IF s.wroteHeader THEN s.status ELSE 200

\* &statusWriter{ResponseWriter: w, status: 200}
NewStatusWriter == [status |-> 200, body |-> ""]

\* statusWriter.WriteHeader: the wrapper w and its sink s after the call
WriteHeader(w, s, status) ==
    [sw |-> [w EXCEPT !.status = status], sink |-> SinkWriteHeader(s, status)]

\* a Write that also records the implied status
WriteResettingStatus(w, s, b) ==
    [sw |-> [w EXCEPT !.body = b, !.status = 200], sink |-> SinkWrite(s, b)]

\* statusWriter.Write: the wrapper w and its sink s after the call
Write(w, s, b) ==
    [sw |-> [w EXCEPT !.body = b], sink |-> SinkWrite(s, b)]

pingPattern == <<"/", "p", "i", "n", "g">>
healthzPattern == <<"/", "h", "e", "a", "l", "t", "h", "z">>

\* a *regexp.Regexp that is an alternation of literals, or nil
NilBlacklist == [nil |-> TRUE, alts |-> {}]
DefaultPathLogBlacklist == [nil |-> FALSE, alts |-> {pingPattern, healthzPattern}]

\* a match of the whole path only
MatchStringWhole(blacklist, path) == path \in blacklist.alts

\* blacklist.MatchString(path): an unanchored match
MatchString(blacklist, path) == \E p \in blacklist.alts : HasSubstring(path, p)

\* blacklist != nil && blacklist.MatchString(r.URL.Path)
Suppressed(blacklist, path) == ~blacklist.nil /\ MatchString(blacklist, path)

\* client errors logged like server errors
RequestEntryPointFrom400(status) ==
    IF status >= 400 THEN EntryPoint("Infof", "Logger", "info", TRUE, 4)
    ELSE EntryPoint("Debugf", "Logger", "debug", TRUE, 4)

\* the method of the logger the middleware logs a request with
RequestEntryPoint(status) ==
    IF status >= 500 THEN EntryPoint("Infof", "Logger", "info", TRUE, 4)
    ELSE EntryPoint("Debugf", "Logger", "debug", TRUE, 4)

handlerFile == <<"/", "g", "o", "/", "d", "s", "/", "g", "o", "-", "l", "o", "g", "/", "h", "a", "n", "d", "l", "e", "r", ".", "g", "o">>

\* "%s %s [%d] (%s)"
requestFormat == <<"%s", " ", "%s", " ", "[", "%d", "]", " ", "(", "%s", ")">>

\* the stack of the closure HTTPHandler returns, below its call of the logger
HandlerStack(line) == <<Frame(handlerFile, line), Frame(runtimeFile, 2136), Frame(runtimeFile, 1650)>>

\* the operands of the request line
RequestOperands(status, method, url, ds) == <<Str(method), Str(url), Num(status), Str(ds)>>

\* logger.Infof / logger.Debugf as the middleware calls them
LogRequest(l, status, method, url, ds) ==
    Call(l, RequestEntryPoint(status), requestFormat,
         RequestOperands(status, method, url, ds),
         HandlerStack(IF status >= 500 THEN 71 ELSE 73))


-----------------------------------------------------------------------------
(* The inputs the program is run on *)

DeployEnvs == {"", "dev", "development", "test", "testing", "production"}
Envs == [DEPLOY_ENV : DeployEnvs, LOG_DEBUG : {"", "1"}]
DevEnv == [DEPLOY_ENV |-> "dev", LOG_DEBUG |-> ""]
ProdEnv == [DEPLOY_ENV |-> "production", LOG_DEBUG |-> ""]
DebugEnv == [DEPLOY_ENV |-> "", LOG_DEBUG |-> "1"]

baseName == <<"w", "e", "b", "s", "e", "r", "v", "e", "r", "9", "x", "y">>

\* logger names of every length up to MaxNameLen
Names == {Take(baseName, Min(k, Len(baseName))) : k \in 0..MaxNameLen}
LongName == Take(baseName, Min(MaxNameLen, Len(baseName)))

deepUserFile == <<"/", "g", "o", "/", "s", "h", "o", "p", "/", "c", "m", "d", "/", "m", "a", "i", "n", ".", "g", "o">>
shallowUserFile == <<"/", "a", "p", "p", "/", "m", "a", "i", "n", ".", "g", "o">>

DeepStack == UserStack(deepUserFile, 42)
ShallowStack == UserStack(shallowUserFile, 17)

\* what a caller passes to a logging call: a format with its operands for the
\* ...f entry points, values for the others
Payload(f, a, vals) == [f |-> f, a |-> a, vals |-> vals]

helloFormat == <<"h", "i", " ", "%s">>
Operands == {Str(<<"x">>), Str(<<NL>>)}
Hello == Payload(helloFormat, <<Str(<<"x">>)>>, <<<<"h", "i">>, <<"x">>>>)

FmtTokens == {"a", NL, "%s"}

RECURSIVE SeqsUpTo(_, _)
SeqsUpTo(S, n) ==
    IF n = 0 THEN {<<>>}
    ELSE LET shorter == SeqsUpTo(S, n - 1)
         IN  shorter \cup {Append(q, x) : q \in {r \in shorter : Len(r) = n - 1}, x \in S}

\* every format of at most MaxFmtLen tokens, with every choice of an operand
\* for each of its verbs
FormatPayloads ==
    UNION {{Payload(f, a, <<>>) : a \in [1..NumVerbs(f) -> Operands]} :
              f \in SeqsUpTo(FmtTokens, MaxFmtLen)}

pingPath == <<"/", "p", "i", "n", "g">>
apiPath == <<"/", "a", "p", "i">>
pingerPath == <<"/", "v", "1", "/", "p", "i", "n", "g", "e", "r">>
Paths == {pingPath, apiPath, pingerPath}
Blacklists == {NilBlacklist, DefaultPathLogBlacklist}
Codes == {200, 404, 503}
Bodies == {"ok"}
GET == <<"G", "E", "T">>

\* elapsed times, in nanoseconds, on every side of the two thresholds
Durations ==
    {m * u + o : m \in {0, 1, 2, 10, 999, 1500}, u \in {1, 1000, 1000000}, o \in {0, 1, 678}}
    \cup {2345000, 2345678, 1235000, 999500000, 1000000000, 1000000001, 2000000000}

-----------------------------------------------------------------------------
(* The state after package initialisation *)

NoCall == [name |-> "none", recv |-> "none", family |-> "none", formatted |-> FALSE,
           logger |-> 0, debugEnabled |-> FALSE, f |-> <<>>, a |-> <<>>,
           format |-> <<>>, lines |-> <<>>, panicked |-> FALSE]

IdleRequest == [pc |-> "idle", path |-> <<>>, blacklist |-> NilBlacklist, logger |-> 1,
                invoked |-> 0, calls |-> <<>>, diff |-> 0, diffStr |-> <<>>,
                logged |-> <<>>, wrote |-> 0]

\* whether the environment asks for debug output, as the documentation of the
\* package states it
EnvGate(e) == e.DEPLOY_ENV \in {"dev", "development", "test", "testing"} \/ e.LOG_DEBUG # ""

Built(name, honor, e) == [name |-> name, honor |-> honor, gate |-> EnvGate(e)]

\* var defaultLogger = NewLogger("main", true), in the environment e the
\* process starts in
InitIn(e) ==
    /\ env = e
    /\ loggers = <<NewLogger(mainName, TRUE, e)>>
    /\ made = <<Built(mainName, TRUE, e)>>
    /\ lastCall = NoCall
    /\ crashed = FALSE
    /\ mw = IdleRequest
    /\ sw = NewStatusWriter
    /\ sink = FreshSink

NoCaller == [file |-> <<>>, line |-> 0, frames |-> 0, done |-> FALSE, out |-> Resolved(<<>>)]

Init == \E e \in Envs : InitIn(e) /\ callerIO = NoCaller

-----------------------------------------------------------------------------
(* Operations *)

\* os.Setenv by the host program
SetEnv(envs) ==
    /\ ~crashed
    /\ \E e \in envs : env' = e
    /\ UNCHANGED <<loggers, made, lastCall, crashed, mw, sw, sink, callerIO>>

\* l := NewLogger(name, honor)
DoNewLogger(names) ==
    /\ ~crashed
    /\ Len(loggers) < 1 + MaxLoggers
    /\ \E name \in names, honor \in BOOLEAN :
          /\ loggers' = Append(loggers, NewLogger(name, honor, env))
          /\ made' = Append(made, Built(name, honor, env))
    /\ UNCHANGED <<env, lastCall, crashed, mw, sw, sink, callerIO>>

\* SetDefaultName(n)
DoSetDefaultName(names) ==
    /\ ~crashed
    /\ \E n \in names :
          /\ loggers' = [loggers EXCEPT ![1] = SetDefaultName(@, n)]
          /\ made' = [made EXCEPT ![1].name = n]
    /\ UNCHANGED <<env, lastCall, crashed, mw, sw, sink, callerIO>>

\* the record of a call of entry point ep on logger id with result r
Called(ep, id, p, r) ==
    [name |-> ep.name, recv |-> ep.recv, family |-> ep.family, formatted |-> ep.formatted,
     logger |-> id, debugEnabled |-> loggers[id].debugEnabled,
     f |-> IF ep.formatted THEN p.f ELSE <<>>,
     a |-> IF ep.formatted THEN p.a ELSE <<>>,
     format |-> r.format, lines |-> r.lines, panicked |-> r.panic]

\* a call of the logging API: a method of some logger, or a package level
\* function, which goes to defaultLogger
DoCall(eps, payloads, stacks) ==
    /\ ~crashed
    /\ \E ep \in eps, id \in DOMAIN loggers, p \in payloads, st \in stacks :
          /\ ep.recv = "package" => id = 1
          /\ LET r == Call(loggers[id], ep, p.f, IF ep.formatted THEN p.a ELSE p.vals, st)
             IN  /\ lastCall' = Called(ep, id, p, r)
                 /\ crashed' = r.panic
    /\ UNCHANGED <<env, loggers, made, mw, sw, sink, callerIO>>

\* a request arrives: the closure builds the statusWriter and calls h.ServeHTTP
MwStart(paths, blacklists) ==
    /\ ~crashed
    /\ mw.pc \in {"idle", "done"}
    /\ \E path \in paths, bl \in blacklists, id \in DOMAIN loggers :
          mw' = [IdleRequest EXCEPT !.pc = "serving", !.path = path, !.blacklist = bl,
                                    !.logger = id, !.invoked = 1]
    /\ sw' = NewStatusWriter
    /\ sink' = FreshSink
    /\ UNCHANGED <<env, loggers, made, lastCall, crashed, callerIO>>

\* the downstream handler calls sw.WriteHeader(status)
HandlerWriteHeader(codes, maxCalls) ==
    /\ ~crashed
    /\ mw.pc = "serving"
    /\ Len(mw.calls) < maxCalls
    /\ \E status \in codes :
          /\ sw' = WriteHeader(sw, sink, status).sw
          /\ sink' = WriteHeader(sw, sink, status).sink
          /\ mw' = [mw EXCEPT !.calls = Append(@, [op |-> "WriteHeader", status |-> status, b |-> ""])]
    /\ UNCHANGED <<env, loggers, made, lastCall, crashed, callerIO>>

\* the downstream handler calls sw.Write(b)
HandlerWrite(bodies, maxCalls) ==
    /\ ~crashed
    /\ mw.pc = "serving"
    /\ Len(mw.calls) < maxCalls
    /\ \E b \in bodies :
          /\ sw' = Write(sw, sink, b).sw
          /\ sink' = Write(sw, sink, b).sink
          /\ mw' = [mw EXCEPT !.calls = Append(@, [op |-> "Write", status |-> 0, b |-> b])]
    /\ UNCHANGED <<env, loggers, made, lastCall, crashed, callerIO>>

\* h.ServeHTTP returns: the closure measures the time and logs the request
MwFinish(durations) ==
    /\ ~crashed
    /\ mw.pc = "serving"
    /\ \E d \in durations :
          IF Suppressed(mw.blacklist, mw.path)
          THEN /\ mw' = [mw EXCEPT !.pc = "done", !.diff = d]
               /\ UNCHANGED <<lastCall, crashed>>
          ELSE \E ds \in diffStr(d) :
                  LET ep == RequestEntryPoint(sw.status)
                      p == Payload(requestFormat,
                                   RequestOperands(sw.status, GET, mw.path, ds), <<>>)
                      r == LogRequest(loggers[mw.logger], sw.status, GET, mw.path, ds)
                  IN  /\ mw' = [mw EXCEPT !.pc = "done", !.diff = d, !.diffStr = ds,
                                          !.logged = <<ep.name>>,
                                          !.wrote = Len(r.lines)]
                      /\ lastCall' = Called(ep, mw.logger, p, r)
                      /\ crashed' = r.panic
    /\ UNCHANGED <<env, loggers, made, sw, sink, callerIO>>


\* source files at every depth up to MaxDepth, absolute and relative
dirA == <<"a">>
dirPkg == <<"p", "k", "g">>
dirLong == <<"i", "n", "t", "e", "r", "n", "a", "l", "s", "e", "r", "v", "i", "c", "e", "s">>
fileMain == <<"m", "a", "i", "n", ".", "g", "o">>
fileCatalog == <<"c", "a", "t", "a", "l", "o", "g", ".", "g", "o">>
fileLong == <<"r", "e", "q", "u", "e", "s", "t", "h", "a", "n", "d", "l", "e", "r", "i", "m", "p", "l", "e", "m", "e", "n", "t", ".", "g", "o">>

SourceFiles ==
    {Join(root \o dirs \o <<file>>, <<"/">>) :
        root \in {<<>>, <<<<>>>>},
        dirs \in SeqsUpTo({dirA, dirPkg, dirLong}, MaxDepth),
        file \in {fileMain, fileCatalog, fileLong}}

LineNumbers == {7, 120, 10000}

InitCaller ==
    /\ InitIn(DevEnv)
    /\ \E file \in SourceFiles, line \in LineNumbers, frames \in {4, 5} :
          callerIO = [file |-> file, line |-> line, frames |-> frames, done |-> FALSE,
                      out |-> Resolved(<<>>)]

\* getCaller() as output and outputf call it, below frames frames of log.go
ResolveCaller ==
    /\ ~callerIO.done
    /\ callerIO' = [callerIO EXCEPT
                       !.done = TRUE,
                       !.out = getCaller(LibraryFrames(callerIO.frames)
                                         \o UserStack(callerIO.file, callerIO.line), 0)]
    /\ UNCHANGED <<env, loggers, made, lastCall, crashed, mw, sw, sink>>

-----------------------------------------------------------------------------
(* Specifications *)

\* the whole program: the environment changing, loggers being built and
\* renamed, logging calls and requests through the middleware
Next ==
    \/ SetEnv({ProdEnv, DevEnv, DebugEnv})
    \/ DoNewLogger({LongName})
    \/ DoSetDefaultName({LongName})
    \/ DoCall({EntryPoint("Debugf", "Logger", "debug", TRUE, 4),
               EntryPoint("Info", "package", "info", FALSE, 5)}, {Hello}, {DeepStack})
    \/ MwStart({apiPath}, {NilBlacklist})
    \/ HandlerWriteHeader({503}, 1)
    \/ HandlerWrite(Bodies, 1)
    \/ MwFinish({999})

Spec == Init /\ [][Next]_vars

\* every entry point of the logging API, called from a deep and from a
\* shallow source file
InitCalls == \E e \in {DevEnv, ProdEnv} : InitIn(e) /\ callerIO = NoCaller

NextCalls ==
    \/ DoNewLogger({LongName})
    \/ DoCall(EntryPoints, {Hello}, {DeepStack, ShallowStack})

SpecCalls == InitCalls /\ [][NextCalls]_vars

\* one request through the middleware
NextHTTP ==
    \/ mw.pc = "idle" /\ MwStart(Paths, Blacklists)
    \/ HandlerWriteHeader(Codes, MaxHandlerCalls)
    \/ HandlerWrite(Bodies, MaxHandlerCalls)
    \/ MwFinish({2345000})

SpecHTTP == InitCalls /\ [][NextHTTP]_vars

\* requests of every duration, through a handler that writes nothing
NextDur ==
    \/ mw.pc = "idle" /\ MwStart({apiPath, pingerPath}, {NilBlacklist})
    \/ MwFinish(Durations)

SpecDur == InitIn(DevEnv) /\ callerIO = NoCaller /\ [][NextDur]_vars

\* loggers being built and the default logger being renamed
NextNames ==
    \/ DoNewLogger(Names)
    \/ DoSetDefaultName(Names)

SpecNames == InitIn(DevEnv) /\ callerIO = NoCaller /\ [][NextNames]_vars

\* one call of a format-string entry point, on every format
NextFmt ==
    /\ lastCall.name = "none"
    /\ DoCall({ep \in EntryPoints : ep.formatted}, FormatPayloads, {DeepStack})

SpecFmt == InitCalls /\ [][NextFmt]_vars

\* the caller resolver on every source file
NextCaller == ResolveCaller

SpecCaller == InitCaller /\ [][NextCaller]_vars

-----------------------------------------------------------------------------
(* Properties *)

InfoFamily == {"Info", "Infoln", "Infof", "Print", "Println", "Printf"}
DebugFamily == {"Debug", "Debugln", "Debugf"}

\* C1: a Debug, Debugln or Debugf call on a logger whose debugEnabled is false
\* writes nothing, and every Info, Infoln, Infof, Print, Println or Printf
\* call writes exactly one line: a call writes a line iff it is of the Info
\* family or debugEnabled is true, and never more than one.
C1_LineIffInfoOrDebug ==
    lastCall.name # "none" =>
        /\ lastCall.name \in DebugFamily /\ ~lastCall.debugEnabled => Len(lastCall.lines) = 0
        /\ lastCall.name \in InfoFamily => Len(lastCall.lines) = 1
        /\ Len(lastCall.lines) = (IF lastCall.name \in InfoFamily \/ lastCall.debugEnabled
                                  THEN 1 ELSE 0)

\* the default exclusion pattern, /ping|/healthz, matched anywhere in the path
MatchesPingOrHealthz(path) ==
    \/ HasSubstring(path, <<"/", "p", "i", "n", "g">>)
    \/ HasSubstring(path, <<"/", "h", "e", "a", "l", "t", "h", "z">>)

Excluded == ~mw.blacklist.nil /\ MatchesPingOrHealthz(mw.path)

\* C2: for a request whose path the blacklist does not match, the middleware
\* makes no log call while the handler runs and exactly one once it has
\* returned, Infof when the captured status is >= 500 and Debugf otherwise; a
\* status below 500 on a logger without debug leaves no line, a status of 500
\* or more leaves exactly one line whatever the debug mode.
C2_OneCallByStatus ==
    /\ mw.pc = "serving" => mw.logged = <<>> /\ lastCall.name = "none"
    /\ mw.pc = "done" /\ ~Excluded =>
          /\ Len(mw.logged) = 1
          /\ mw.logged[1] = (IF sw.status >= 500 THEN "Infof" ELSE "Debugf")
          /\ lastCall.name = mw.logged[1]
          /\ sw.status < 500 /\ ~loggers[mw.logger].debugEnabled => mw.wrote = 0
          /\ sw.status < 500 /\ loggers[mw.logger].debugEnabled => mw.wrote = 1
          /\ sw.status >= 500 => mw.wrote = 1

C2_Witness ==
    /\ mw.pc = "done"
    /\ ~Excluded
    /\ sw.status = 503
    /\ ~loggers[mw.logger].debugEnabled
    /\ mw.logged = <<"Infof">>
    /\ Len(lastCall.lines) = 1

\* C3: for a request whose path matches the exclusion pattern the middleware
\* makes no log call and writes no line, whatever the status, and has called
\* the downstream handler exactly once; without a pattern every request is
\* logged.
C3_ExcludedPathsAreSilent ==
    mw.pc = "done" =>
        /\ mw.invoked = 1
        /\ Excluded => mw.logged = <<>> /\ mw.wrote = 0 /\ lastCall.name = "none"
        /\ mw.blacklist.nil => Len(mw.logged) = 1

C3_Witness ==
    /\ mw.pc = "done"
    /\ Excluded
    /\ mw.path = pingerPath
    /\ sw.status = 503
    /\ Len(mw.calls) > 0
    /\ mw.logged = <<>>

\* the status of the last WriteHeader among calls, 200 when there is none
RECURSIVE LastHeader(_)
LastHeader(calls) ==
    IF Len(calls) = 0 THEN 200
    ELSE IF calls[Len(calls)].op = "WriteHeader" THEN calls[Len(calls)].status
    ELSE LastHeader(SubSeq(calls, 1, Len(calls) - 1))

\* C4: whatever WriteHeader and Write calls the handler has made on a fresh
\* wrapper, the recorded status is 200 as long as there was no WriteHeader and
\* the code of the latest WriteHeader afterwards, and the underlying sink has
\* received the very same calls.
C4_RecordedStatus ==
    mw.pc \in {"serving", "done"} =>
        /\ sw.status = LastHeader(mw.calls)
        /\ sink.calls = mw.calls

C4_Witness ==
    /\ mw.pc = "serving"
    /\ Len(mw.calls) = 2
    /\ mw.calls[1] = [op |-> "WriteHeader", status |-> 404, b |-> ""]
    /\ mw.calls[2].op = "Write"
    /\ sw.status = 404

\* C5: every logger's stored name is at most 6 characters long and is the
\* first min(len(n), 6) characters of the name n last supplied for it.
C5_NameLimited ==
    \A i \in DOMAIN loggers :
        /\ Len(loggers[i].prefix) <= 6
        /\ loggers[i].prefix = SubSeq(made[i].name, 1, Min(Len(made[i].name), 6))

C5_Witness ==
    /\ Len(loggers) > 1
    /\ Len(made[1].name) > 6
    /\ Len(made[2].name) > 6
    /\ Len(loggers[1].prefix) = 6
    /\ Len(loggers[2].prefix) = 6

\* C6: the token the caller resolver returns is never longer than 22
\* characters, for a source file path of any depth.
C6_TokenWithinBudget ==
    callerIO.done => callerIO.out.ok /\ Len(callerIO.out.s) <= 22

\* C7, as stated: the line a format-string entry point writes ends with
\* exactly one newline, however many newlines the format string ends with.
C7_ExactlyOneNewline ==
    lastCall.formatted /\ Len(lastCall.lines) = 1 => TrailingNL(lastCall.lines[1]) = 1

\* C7, amended: the format handed to fmt.Printf ends with max(1, k) newlines,
\* k being the number of newlines the caller's format string ends with: one
\* is appended when there is none and none is ever removed.  The line written
\* ends with at least that many, and with exactly that many when the format
\* string has no verb.
C7_NewlineAppendedIfAbsent ==
    lastCall.formatted /\ Len(lastCall.lines) = 1 =>
        LET k == TrailingNL(lastCall.f)
        IN  /\ TrailingNL(lastCall.format) = Max(1, k)
            /\ TrailingNL(lastCall.lines[1]) >= Max(1, k)
            /\ NumVerbs(lastCall.f) = 0 => TrailingNL(lastCall.lines[1]) = Max(1, k)

C7_Witness ==
    /\ lastCall.name = "Printf"
    /\ lastCall.f = <<"a", NL, NL>>
    /\ Len(lastCall.lines) = 1
    /\ TrailingNL(lastCall.lines[1]) = 2

\* the renderings the duration rule of the middleware allows for d nanoseconds
ClaimedDiffStr(d) ==
    IF d >= Second THEN {DurationString(d - (d % Millisecond))}
    ELSE IF d >= Millisecond
         THEN {Fixed3(t) \o <<"m", "s">> : t \in Rounded(d, 1000)}
    ELSE {DurationString(d)}

\* C8: the duration in the request line is the elapsed time truncated to the
\* millisecond when it is a second or more, its value in milliseconds with
\* three decimals and "ms" when it is a millisecond or more, and the default
\* rendering below that.
C8_DurationRendering ==
    mw.pc = "done" /\ mw.logged # <<>> => mw.diffStr \in ClaimedDiffStr(mw.diff)

C10_RecordedIsSent ==
    mw.pc = "done" => sw.status = SentStatus(sink)

=============================================================================
